---- MODULE Spec2Model ----
(*************************************************************************)
(* A model of chempy/molecule.py: the Atom / Bond payloads, the ChemGraph *)
(* hydrogen compression transform, and the Molecule adapter to and from   *)
(* the foreign (OpenBabel) molecular model.                               *)
(*                                                                        *)
(* Representation.  An atom object is identified by its position in the  *)
(* graph's `atoms` list (Atom defines no __eq__, so list membership and   *)
(* dict keys go by object identity).  The `bonds` dict of dicts is the    *)
(* set `keys` of positions that own an adjacency dict plus the set        *)
(* `bonds` of directed entries <<a, b, order>>, meaning                   *)
(* bonds[atom_a][atom_b].order = order.                                   *)
(*************************************************************************)
EXTENDS Integers, Sequences, FiniteSets, TLC

(***************************** bounds ************************************)
\* atoms the caller puts into a foreign structure before AddHydrogens
MaxOBAtoms == 3
\* atoms (explicit vertices plus implicit hydrogens) one graph may hold
MaxAtoms == 3
\* direct addAtom/addBond/removeAtom/removeBond calls made on one graph
MaxEdits == 1
\* resonance forms held by a Molecule handed to isIsomorphic
MaxForms == 2

(************************ program constants ******************************)
Hydrogen == 1
Carbon == 6
Oxygen == 8
Aromatic == 5

Elements == {Hydrogen, Carbon}
\* spin-multiplicity codes a foreign atom may carry (4 is outside the table)
SpinCodes == 0..4
\* foreign bond codes: 1, 2, 3, aromatic 5, and 4 (none of the predicates)
ForeignBondCodes == {1, 2, 3, 4, Aromatic}

NoErr == "none"

(***************************** helpers ***********************************)
RECURSIVE SumSeq(_)
SumSeq(s) == IF s = <<>> THEN 0 ELSE Head(s) + SumSeq(Tail(s))

Perms(n) == {p \in [1..n -> 1..n] : \A i, j \in 1..n : p[i] = p[j] => i = j}

(****************************** Atom *************************************)
Atom(number, radicalElectrons, spinMultiplicity, implicitHydrogens, charge) ==
    [number |-> number, radicalElectrons |-> radicalElectrons,
     spinMultiplicity |-> spinMultiplicity,
     implicitHydrogens |-> implicitHydrogens, charge |-> charge]

isHydrogen(atom) == atom.number = Hydrogen

isNonHydrogen(atom) == atom.number > Hydrogen

\* Atom(element='H'): every other field takes its default
HydrogenAtom == Atom(Hydrogen, 0, 1, 0, 0)

AtomEquivalent(a, b) ==
    /\ a.number = b.number
    /\ a.radicalElectrons = b.radicalElectrons
    /\ a.spinMultiplicity = b.spinMultiplicity
    /\ a.implicitHydrogens = b.implicitHydrogens
    /\ a.charge = b.charge

BondEquivalent(o1, o2) == o1 = o2

(**************************** ChemGraph **********************************)
\* ChemGraph(): no atoms, no bonds, flag False
EmptyGraph ==
    [atoms |-> <<>>, keys |-> {}, bonds |-> {}, implicitHydrogens |-> FALSE]

Neighbors(g, a) == {t[2] : t \in {u \in g.bonds : u[1] = a}}

Degree(g, a) == Cardinality(Neighbors(g, a))

\* number of bonds: unordered pairs stored in either direction
BondPairs(g) == {{t[1], t[2]} : t \in g.bonds}

\* Graph.addVertex: append, with an empty adjacency dict
addAtom(g, atom) ==
    [g EXCEPT !.atoms = Append(g.atoms, atom),
              !.keys = g.keys \cup {Len(g.atoms) + 1}]

\* Graph.addEdge: the bond is stored under both (a,b) and (b,a)
addBond(g, a, b, order) ==
    [g EXCEPT !.keys = g.keys \cup {a, b},
              !.bonds = {t \in g.bonds : ~(<<t[1], t[2]>> \in {<<a, b>>, <<b, a>>})}
                          \cup {<<a, b, order>>, <<b, a, order>>}]

Shift(x, p) == IF x > p THEN x - 1 ELSE x

\* Graph.removeVertex: the vertex and every bond that touches it
removeAtom(g, p) ==
    [g EXCEPT !.atoms = SubSeq(g.atoms, 1, p - 1) \o SubSeq(g.atoms, p + 1, Len(g.atoms)),
              !.keys = {Shift(k, p) : k \in g.keys \ {p}},
              !.bonds = {<<Shift(t[1], p), Shift(t[2], p), t[3]>> :
                           t \in {u \in g.bonds : u[1] # p /\ u[2] # p}}]

\* Graph.removeEdge: both directions
removeBond(g, a, b) ==
    [g EXCEPT !.bonds = {t \in g.bonds :
                           ~(<<t[1], t[2]>> \in {<<a, b>>, <<b, a>>})}]

\* Graph.sortVertices: the vertex list is reordered in place; the atom at
\* old position i moves to position p[i].  The ordering key belongs to the
\* graph capability, so every permutation p is admitted.
sortAtoms(g, p) ==
    [g EXCEPT !.atoms = [k \in 1..Len(g.atoms) |->
                           g.atoms[CHOOSE i \in 1..Len(g.atoms) : p[i] = k]],
              !.keys = {p[k] : k \in g.keys},
              !.bonds = {<<p[t[1]], p[t[2]], t[3]>> : t \in g.bonds}]

\* ChemGraph.copy(deep): Graph.copy hands back the vertices and edges (the
\* same Atom and Bond objects, or copies of them when deep: equal values
\* either way) and a new ChemGraph is constructed from them, so the flag is
\* the one the constructor sets
copy(g, deep) ==
    [atoms |-> g.atoms, keys |-> g.keys, bonds |-> g.bonds,
     implicitHydrogens |-> EmptyGraph.implicitHydrogens]

\* mutation: the removal loop is skipped
KeepHydrogens(g) == g

\* the list `hydrogens` of makeHydrogensImplicit is removed atom by atom
RECURSIVE RemoveHydrogens(_)
RemoveHydrogens(g) ==
    LET hs == {i \in 1..Len(g.atoms) : isHydrogen(g.atoms[i])}
    IN  IF hs = {} THEN g
        ELSE RemoveHydrogens(removeAtom(g, CHOOSE i \in hs : \A j \in hs : i <= j))

\* self.bonds[atom].keys()[0]: the dict's iteration order decides which
\* neighbor comes first; f[i] is that neighbor for the hydrogen at i.
RECURSIVE NeighborChoices(_, _)
NeighborChoices(g, i) ==
    IF i = 0 THEN {<<>>}
    ELSE LET opts == IF isHydrogen(g.atoms[i]) /\ Neighbors(g, i) # {}
                     THEN Neighbors(g, i) ELSE {0}
         IN  {Append(s, c) : s \in NeighborChoices(g, i - 1), c \in opts}

\* the counting loop of makeHydrogensImplicit, from position i on; a
\* lookup that fails ends the call with the counters incremented so far
RECURSIVE CountHydrogens(_, _, _)
CountHydrogens(g, f, i) ==
    IF i > Len(g.atoms) THEN [g |-> g, err |-> NoErr]
    ELSE IF ~isHydrogen(g.atoms[i]) THEN CountHydrogens(g, f, i + 1)
    ELSE IF i \notin g.keys THEN [g |-> g, err |-> "KeyError"]
    ELSE IF Neighbors(g, i) = {} THEN [g |-> g, err |-> "IndexError"]
    ELSE CountHydrogens(
             [g EXCEPT !.atoms[f[i]].implicitHydrogens = @ + 1], f, i + 1)

AllHydrogen(g) == \A i \in 1..Len(g.atoms) : isHydrogen(g.atoms[i])

\* mutation: the guard returns early on the empty graph only
EmptyOnlyGuard(g) == g.atoms = <<>>

\* the guard of makeHydrogensImplicit: all([atom.isHydrogen() ...])
ImplicitGuard(g) == AllHydrogen(g)

makeHydrogensImplicit(g, f) ==
    IF ImplicitGuard(g) THEN [g |-> g, err |-> NoErr]
    ELSE LET c == CountHydrogens(g, f, 1)
         IN  IF c.err # NoErr THEN c
             ELSE [g |-> [RemoveHydrogens(c.g) EXCEPT !.implicitHydrogens = TRUE],
                   err |-> NoErr]

\* planning loop of makeHydrogensExplicit: the heavy-atom position of every
\* planned hydrogen, in planning order
RECURSIVE PlanHydrogens(_, _)
PlanHydrogens(atoms, i) ==
    IF i > Len(atoms) THEN <<>>
    ELSE LET n == atoms[i].implicitHydrogens
         IN  [k \in 1..(IF n > 0 THEN n ELSE 0) |-> i] \o PlanHydrogens(atoms, i + 1)

\* mutation: the hydrogens are added without their bonds
NoBondAddPlanned(g, plan) ==
    [g EXCEPT !.atoms = g.atoms \o [k \in 1..Len(plan) |-> HydrogenAtom],
              !.keys = g.keys \cup (Len(g.atoms) + 1)..(Len(g.atoms) + Len(plan))]

\* "Add the hydrogens to the graph": addAtom(H); addBond(H, atom, bond)
RECURSIVE AddPlanned(_, _)
AddPlanned(g, plan) ==
    IF plan = <<>> THEN g
    ELSE AddPlanned(addBond(addAtom(g, HydrogenAtom), Len(g.atoms) + 1, Head(plan), 1),
                    Tail(plan))

makeHydrogensExplicit(g) ==
    LET plan == PlanHydrogens(g.atoms, 1)
        zero == [g EXCEPT !.atoms = [i \in 1..Len(g.atoms) |->
                    IF g.atoms[i].implicitHydrogens > 0
                    THEN [g.atoms[i] EXCEPT !.implicitHydrogens = 0]
                    ELSE g.atoms[i]]]
    IN  [AddPlanned(zero, plan) EXCEPT !.implicitHydrogens = FALSE]

(************************* foreign molecular model ***********************)
\* A foreign structure: atoms <<[num, charge, spin, hcount]>> in native
\* order (hcount: hydrogens the foreign model still holds implicitly) and
\* bonds <<lo, hi, code>>.
OBAtom(num, charge, spin, hcount) ==
    [num |-> num, charge |-> charge, spin |-> spin, hcount |-> hcount]

RECURSIVE OBAddH(_, _)
OBAddH(ob, i) ==
    IF i > Len(ob.atoms) THEN ob
    ELSE IF ob.atoms[i].hcount = 0 THEN OBAddH(ob, i + 1)
    ELSE OBAddH([atoms |-> Append([ob.atoms EXCEPT ![i].hcount = @ - 1],
                                  OBAtom(Hydrogen, 0, 0, 0)),
                 bonds |-> ob.bonds \cup {<<i, Len(ob.atoms) + 1, 1>>}], i)

\* obmol.AddHydrogens(): the implicit hydrogens become atoms, appended
\* after the existing ones, each with a single bond to its heavy atom
AddHydrogens(ob) == OBAddH(ob, 1)

\* obbond.IsSingle() / IsDouble() / IsTriple() / IsAromatic()
IsSingle(code) == code = 1
IsDouble(code) == code = 2
IsTriple(code) == code = 3
IsAromatic(code) == code = Aromatic

\* "Process bond type" of fromOBMol
BondOrder(code) ==
    IF IsSingle(code) THEN 1 ELSE IF IsDouble(code) THEN 2
    ELSE IF IsTriple(code) THEN 3 ELSE IF IsAromatic(code) THEN 5 ELSE 0

\* "Process spin multiplicity" of fromOBMol: a code that matches no branch
\* leaves radicalElectrons = 0 and spinMultiplicity = the code itself
DecodeSpin(code) ==
    IF code = 0 THEN [radicalElectrons |-> 0, spinMultiplicity |-> 1]
    ELSE IF code = 1 THEN [radicalElectrons |-> 2, spinMultiplicity |-> 1]
    ELSE IF code = 2 THEN [radicalElectrons |-> 1, spinMultiplicity |-> 2]
    ELSE IF code = 3 THEN [radicalElectrons |-> 2, spinMultiplicity |-> 3]
    ELSE [radicalElectrons |-> 0, spinMultiplicity |-> code]

\* the atom built for one foreign atom
ImportAtom(oba) ==
    Atom(oba.num, DecodeSpin(oba.spin).radicalElectrons,
         DecodeSpin(oba.spin).spinMultiplicity, 0, oba.charge)

\* mutation: the bond is stored under (atom1, atom2) only
OneWayImportBonds(ob) == {<<t[2], t[1], BondOrder(t[3])>> : t \in ob.bonds}

\* the bond loop of fromOBMol: atom i against every earlier atom j
ImportBonds(ob) ==
    {<<t[2], t[1], BondOrder(t[3])>> : t \in ob.bonds}
        \cup {<<t[1], t[2], BondOrder(t[3])>> : t \in ob.bonds}

\* the graph fromOBMol has built when it reaches makeHydrogensImplicit
BuildGraph(ob) ==
    [atoms |-> [i \in 1..Len(ob.atoms) |-> ImportAtom(ob.atoms[i])],
     keys |-> UNION {{t[1], t[2]} : t \in ob.bonds},
     bonds |-> ImportBonds(ob),
     implicitHydrogens |-> FALSE]

\* mutation: SetFormalCharge is left out
NoChargeExportAtom(atom) == OBAtom(atom.number, 0, 0, 0)

\* NewAtom / SetAtomicNum / SetFormalCharge of toOBMol
ExportAtom(atom) ==
    OBAtom(atom.number, atom.charge, 0, 0)

\* mutation: the test is index1 != index2
AllEntriesCalls(g) == {t \in g.bonds : t[1] # t[2]}

\* the AddBond calls of toOBMol: <<index1, index2, order>>, one for every
\* entry bonds[atom1][atom2] with index1 < index2
AddBondCalls(g) == {t \in g.bonds : t[1] < t[2]}

\* the valence the foreign model expects of an atom
ExpectedValence(num, charge) ==
    IF num = Hydrogen THEN 1 - charge
    ELSE IF num = Carbon THEN 4 - charge
    ELSE IF num = Oxygen THEN 2 + charge
    ELSE 0

\* the bond orders at foreign atom i, an aromatic bond counted once
OBValence(ob, i) ==
    LET at == {t \in ob.bonds : t[1] = i \/ t[2] = i}
        RECURSIVE Sum(_)
        Sum(S) == IF S = {} THEN 0
                  ELSE LET t == CHOOSE x \in S : TRUE
                       IN  (IF t[3] = Aromatic THEN 1 ELSE t[3]) + Sum(S \ {t})
    IN  Sum(at)

\* obmol.AssignSpinMultiplicity(True): the foreign model assigns every
\* atom a spin code from the bonding pattern alone (atomic number, charge
\* and bonds are all it was given): none for a filled valence, doublet
\* for one missing bond, triplet for more
AssignSpinMultiplicity(ob) ==
    [ob EXCEPT !.atoms =
        [i \in 1..Len(ob.atoms) |->
            LET missing == ExpectedValence(ob.atoms[i].num, ob.atoms[i].charge)
                               - OBValence(ob, i)
            IN  [ob.atoms[i] EXCEPT !.spin =
                    IF missing <= 0 THEN 0
                    ELSE IF missing = 1 THEN 2 ELSE 3]]]

\* the foreign structure toOBMol has built from the explicit, sorted graph
BuildOBMol(g) ==
    AssignSpinMultiplicity(
        [atoms |-> [i \in 1..Len(g.atoms) |-> ExportAtom(g.atoms[i])],
         bonds |-> {<<IF t[1] < t[2] THEN t[1] ELSE t[2],
                      IF t[1] < t[2] THEN t[2] ELSE t[1], t[3]>> :
                        t \in AddBondCalls(g)}])


(************************* isomorphism ***********************************)
\* Graph.isIsomorphic with Atom.equivalent / Bond.equivalent as the
\* matching predicates: a bijection of the vertices that maps equivalent
\* atoms to each other and carries the bonds of g1 onto the bonds of g2
GraphIsIsomorphic(g1, g2) ==
    /\ Len(g1.atoms) = Len(g2.atoms)
    /\ \E p \in Perms(Len(g1.atoms)) :
         /\ \A i \in 1..Len(g1.atoms) : AtomEquivalent(g1.atoms[i], g2.atoms[p[i]])
         /\ \A t \in g1.bonds :
              \E u \in g2.bonds :
                 u[1] = p[t[1]] /\ u[2] = p[t[2]] /\ BondEquivalent(t[3], u[3])
         /\ Cardinality(g1.bonds) = Cardinality(g2.bonds)

\* "for chemGraph2 in other.resonanceForms: if ...: return True"
RECURSIVE InnerLoop(_, _)
InnerLoop(chemGraph1, forms2) ==
    IF forms2 = <<>> THEN FALSE
    ELSE IF GraphIsIsomorphic(chemGraph1, Head(forms2)) THEN TRUE
    ELSE InnerLoop(chemGraph1, Tail(forms2))

\* "for chemGraph1 in self.resonanceForms: ..."
RECURSIVE OuterLoop(_, _)
OuterLoop(forms1, forms2) ==
    IF forms1 = <<>> THEN FALSE
    ELSE IF InnerLoop(Head(forms1), forms2) THEN TRUE
    ELSE OuterLoop(Tail(forms1), forms2)

\* mutation: only the first resonance forms of two Molecules are compared
FirstFormIsIsomorphic(forms1, other) ==
    IF other.type = "Molecule"
    THEN forms1 # <<>> /\ other.forms # <<>>
         /\ GraphIsIsomorphic(forms1[1], other.forms[1])
    ELSE IF other.type = "ChemGraph" THEN OuterLoop(forms1, other.forms)
    ELSE FALSE

\* Molecule.isIsomorphic(other).  `other` is [type, forms]: a Molecule
\* with its resonanceForms, a ChemGraph (forms = <<the graph>>), or an
\* object of another type (forms = <<>>).
isIsomorphic(forms1, other) ==
    IF other.type = "Molecule" THEN OuterLoop(forms1, other.forms)
    ELSE IF other.type = "ChemGraph" THEN OuterLoop(forms1, <<other.forms[1]>>)
    ELSE FALSE

(*************************** inputs **************************************)
Charges == {0, 1}

\* (charge, spin code) the first foreign atom may carry; the others are
\* neutral with code 0.  Open-shell codes are given to one-atom structures
\* (an atom with its implicit hydrogens, such as a methyl radical).
Decorations(n) ==
    {<<c, 0>> : c \in Charges} \cup (IF n = 1 THEN {<<0, s>> : s \in SpinCodes} ELSE {})

\* Foreign structures handed to fromOBMol: n atoms in native order, atom
\* i > 1 bonded to at most one earlier atom par[i] (0: none); the bond of
\* atom 2 carries any foreign code, later bonds are single; heavy atoms
\* may hold implicit hydrogens as long as the whole fits in MaxAtoms.
HCounts(n, nums) ==
    {h \in [1..n -> 0..MaxAtoms] :
       /\ \A i \in 1..n : nums[i] = Hydrogen => h[i] = 0
       /\ n + SumSeq(h) <= MaxAtoms}

OBInputsOfSize(n) ==
    UNION {
      {[atoms |-> [i \in 1..n |->
                     OBAtom(nums[i], IF i = 1 THEN d[1] ELSE 0,
                            IF i = 1 THEN d[2] ELSE 0, hc[i])],
        bonds |-> {<<par[i], i, IF i = 2 THEN code ELSE 1>> :
                     i \in {k \in 1..n : par[k] # 0}}] :
          d \in Decorations(n),
          code \in ForeignBondCodes,
          par \in {q \in [1..n -> 0..MaxOBAtoms] : \A i \in 1..n : q[i] < i},
          hc \in HCounts(n, nums)} :
      nums \in [1..n -> Elements]}

OBInputs == UNION {OBInputsOfSize(n) : n \in 0..MaxOBAtoms}

\* atoms addAtom is called with
AtomPalette == {HydrogenAtom, Atom(Carbon, 0, 1, 0, 0)}

\* orders addBond is called with
EditOrders == {1, 2}

\* vertices plus implicit hydrogens of a graph
Mass(g) ==
    Len(g.atoms) + SumSeq([i \in 1..Len(g.atoms) |->
                             IF g.atoms[i].implicitHydrogens > 0
                             THEN g.atoms[i].implicitHydrogens ELSE 0])

\* the bound on the size of a graph a call is made on.  Whatever a call
\* made on such a graph leaves is followed: a compression that fails has
\* incremented counters without removing the hydrogens, and the heavier
\* graph it leaves is where the calls stop.
Fits(g) == Mass(g) <= MaxAtoms

\* a closed-shell foreign structure with single, double and triple bonds only
ClosedShellSDT(ob) ==
    /\ \A i \in 1..Len(ob.atoms) : ob.atoms[i].spin = 0
    /\ \A t \in ob.bonds : t[3] \in {1, 2, 3}

\* graphs the resonance-form lists of isIsomorphic are built from:
\* C-O, the same with the atoms listed the other way round, C=O, and a
\* lone carbon with two implicit hydrogens
Graph2(atom1, atom2, order) ==
    [atoms |-> <<atom1, atom2>>, keys |-> {1, 2},
     bonds |-> {<<1, 2, order>>, <<2, 1, order>>}, implicitHydrogens |-> TRUE]

IsoPalette ==
    {Graph2(Atom(Carbon, 0, 1, 0, 0), Atom(Oxygen, 0, 1, 0, 0), 1),
     Graph2(Atom(Oxygen, 0, 1, 0, 0), Atom(Carbon, 0, 1, 0, 0), 1),
     Graph2(Atom(Carbon, 0, 1, 0, 0), Atom(Oxygen, 0, 1, 0, 0), 2),
     [atoms |-> <<Atom(Carbon, 2, 3, 2, 0)>>, keys |-> {1}, bonds |-> {},
      implicitHydrogens |-> TRUE]}

FormLists == UNION {[1..n -> IsoPalette] : n \in 0..MaxForms}

Others ==
    {[type |-> "Molecule", forms |-> fs] : fs \in FormLists}
        \cup {[type |-> "ChemGraph", forms |-> <<g>>] : g \in IsoPalette}
        \cup {[type |-> "str", forms |-> <<>>]}

NoIsoCall ==
    [self |-> <<>>, other |-> [type |-> "str", forms |-> <<>>],
     called |-> FALSE, result |-> FALSE]

(***************************** state *************************************)
VARIABLES
    resonanceForms,  \* Molecule.resonanceForms: a list of ChemGraphs
    obmol,           \* <<the foreign structure last imported or returned>>
    last,            \* the last call: method, exception, and for toOBMol
                     \* the recorded flag and the AddBond calls made
    mid,             \* <<graph>> as fromOBMol built it / as toOBMol emitted it
    pre,             \* <<graph>> before the last call (where a claim needs it)
    base,            \* <<graph>> before an Explicit directly followed by Implicit
    rt,              \* import -> export -> import progress
    edits,           \* direct vertex/edge edits made on the current graph
    iso              \* an isIsomorphic call: self, other, and what it returned

vars == <<resonanceForms, obmol, last, mid, pre, base, rt, edits, iso>>

Call(op, err, implicitH, calls) ==
    [op |-> op, err |-> err, implicitH |-> implicitH, calls |-> calls]

\* Molecule(): resonanceForms = []
Init ==
    /\ resonanceForms = <<>>
    /\ obmol = <<>>
    /\ last = Call("__init__", NoErr, FALSE, {})
    /\ mid = <<>>
    /\ pre = <<>>
    /\ base = <<>>
    /\ rt = [stage |-> 0, ok |-> FALSE]
    /\ edits = 0
    /\ iso = NoIsoCall

\* Molecule.fromOBMol(ob0)
fromOBMol(ob0) ==
    \E ob \in {AddHydrogens(ob0)} :
    \E g \in {BuildGraph(ob)} :
    \E r \in {makeHydrogensImplicit(g, f) : f \in NeighborChoices(g, Len(g.atoms))} :
        /\ resonanceForms' = <<r.g>>
        /\ obmol' = <<ob>>
        /\ last' = Call("fromOBMol", r.err, FALSE, {})
        /\ mid' = <<g>>
        /\ base' = <<>>
        /\ edits' = 0
        /\ UNCHANGED iso

\* fromOBMol on a structure the caller has built.  What fromOBMol leaves
\* does not depend on the Molecule's earlier state (resonanceForms is
\* replaced wholesale), so caller-built structures go into a new Molecule.
Import ==
    /\ resonanceForms = <<>>
    /\ \E ob \in OBInputs :
        /\ fromOBMol(ob)
        /\ pre' = <<>>
        /\ rt' = [stage |-> 1, ok |-> ClosedShellSDT(ob)]

\* fromOBMol on the structure toOBMol has just returned
Reimport ==
    /\ last.op = "toOBMol"
    /\ last.err = NoErr
    /\ fromOBMol(obmol[1])
    /\ pre' = IF rt.stage = 2 THEN resonanceForms ELSE <<>>
    /\ rt' = IF rt.stage = 2 THEN [rt EXCEPT !.stage = 3]
             ELSE [stage |-> 1, ok |-> ClosedShellSDT(obmol[1])]

\* Molecule.toOBMol()
toOBMol ==
    IF resonanceForms = <<>>
    THEN /\ last' = Call("toOBMol", "IndexError", FALSE, {})
         /\ UNCHANGED <<resonanceForms, obmol, mid, pre, base, rt, edits, iso>>
    ELSE IF ~Fits(resonanceForms[1]) THEN FALSE
    ELSE \E implicitH \in {resonanceForms[1].implicitHydrogens},
            g1 \in {makeHydrogensExplicit(resonanceForms[1])} :
         \E g2 \in {sortAtoms(g1, p) : p \in Perms(Len(g1.atoms))} :
         \E r \in IF implicitH
                  THEN {makeHydrogensImplicit(g2, f) :
                          f \in NeighborChoices(g2, Len(g2.atoms))}
                  ELSE {[g |-> g2, err |-> NoErr]} :
            /\ resonanceForms' = <<r.g>> \o Tail(resonanceForms)
            /\ obmol' = IF r.err = NoErr THEN <<BuildOBMol(g2)>> ELSE <<>>
            /\ last' = Call("toOBMol", r.err, implicitH, AddBondCalls(g2))
            /\ mid' = <<g2>>
            /\ pre' = IF last.op = "copy" THEN pre ELSE <<>>
            /\ base' = <<>>
            /\ rt' = IF rt.stage = 1 /\ last.err = NoErr /\ r.err = NoErr
                     THEN [rt EXCEPT !.stage = 2]
                     ELSE [stage |-> 0, ok |-> FALSE]
            /\ UNCHANGED <<edits, iso>>

\* resonanceForms[0].makeHydrogensImplicit()
MakeHydrogensImplicit ==
    /\ resonanceForms # <<>>
    /\ Fits(resonanceForms[1])
    /\ \E r \in {makeHydrogensImplicit(resonanceForms[1], f) :
                   f \in NeighborChoices(resonanceForms[1], Len(resonanceForms[1].atoms))} :
         /\ resonanceForms' = <<r.g>> \o Tail(resonanceForms)
         /\ last' = Call("makeHydrogensImplicit", r.err, FALSE, {})
    /\ pre' = resonanceForms
    /\ base' = IF last.op = "makeHydrogensExplicit" THEN pre ELSE <<>>
    /\ mid' = <<>>
    /\ obmol' = <<>>
    /\ rt' = [stage |-> 0, ok |-> FALSE]
    /\ UNCHANGED <<edits, iso>>

\* resonanceForms[0].makeHydrogensExplicit()
MakeHydrogensExplicit ==
    /\ resonanceForms # <<>>
    /\ Fits(resonanceForms[1])
    /\ resonanceForms' = <<makeHydrogensExplicit(resonanceForms[1])>> \o Tail(resonanceForms)
    /\ last' = Call("makeHydrogensExplicit", NoErr, FALSE, {})
    /\ pre' = resonanceForms
    /\ base' = <<>>
    /\ mid' = <<>>
    /\ obmol' = <<>>
    /\ rt' = [stage |-> 0, ok |-> FALSE]
    /\ UNCHANGED <<edits, iso>>

\* a direct edit of resonanceForms[0] that leaves graph g
Edit(op, g) ==
    /\ edits < MaxEdits
    /\ Fits(resonanceForms[1])
    /\ edits' = edits + 1
    /\ resonanceForms' = <<g>> \o Tail(resonanceForms)
    /\ last' = Call(op, NoErr, FALSE, {})
    /\ pre' = <<>>
    /\ base' = <<>>
    /\ mid' = <<>>
    /\ obmol' = <<>>
    /\ rt' = [stage |-> 0, ok |-> FALSE]
    /\ UNCHANGED iso

\* resonanceForms[0].addAtom(atom)
AddAtom ==
    /\ resonanceForms # <<>>
    /\ \E atom \in AtomPalette :
         /\ Fits(addAtom(resonanceForms[1], atom))
         /\ Edit("addAtom", addAtom(resonanceForms[1], atom))

\* resonanceForms[0].addBond(atom1, atom2, Bond(order))
AddBond ==
    /\ resonanceForms # <<>>
    /\ \E a, b \in 1..Len(resonanceForms[1].atoms), order \in EditOrders :
         /\ a < b
         /\ Edit("addBond", addBond(resonanceForms[1], a, b, order))

\* resonanceForms[0].removeAtom(atom)
RemoveAtom ==
    /\ resonanceForms # <<>>
    /\ \E a \in 1..Len(resonanceForms[1].atoms) :
         Edit("removeAtom", removeAtom(resonanceForms[1], a))

\* resonanceForms[0].removeBond(atom1, atom2)
RemoveBond ==
    /\ resonanceForms # <<>>
    /\ \E t \in resonanceForms[1].bonds :
         Edit("removeBond", removeBond(resonanceForms[1], t[1], t[2]))

\* a second Molecule is given resonanceForms = [resonanceForms[0].copy(deep)]
\* and is the Molecule followed from here on; pre keeps the graph copied
Copy ==
    /\ resonanceForms # <<>>
    /\ Fits(resonanceForms[1])
    /\ \E deep \in BOOLEAN :
         resonanceForms' = <<copy(resonanceForms[1], deep)>>
    /\ last' = Call("copy", NoErr, FALSE, {})
    /\ pre' = <<resonanceForms[1]>>
    /\ base' = <<>>
    /\ mid' = <<>>
    /\ obmol' = <<>>
    /\ rt' = [stage |-> 0, ok |-> FALSE]
    /\ UNCHANGED <<edits, iso>>

\* resonanceForms[0].sortAtoms(): the atoms are reordered in place, in the
\* order Graph.sortVertices settles on; the foreign structure and the
\* graphs recorded by earlier calls are not touched
SortAtoms ==
    /\ resonanceForms # <<>>
    /\ Fits(resonanceForms[1])
    /\ edits < MaxEdits
    /\ edits' = edits + 1
    /\ \E p \in Perms(Len(resonanceForms[1].atoms)) :
         resonanceForms' = <<sortAtoms(resonanceForms[1], p)>> \o Tail(resonanceForms)
    /\ last' = Call("sortAtoms", NoErr, FALSE, {})
    /\ rt' = [stage |-> 0, ok |-> FALSE]
    /\ UNCHANGED <<obmol, mid, pre, base, iso>>

NextAdapter ==
    \/ Import
    \/ Reimport
    \/ toOBMol
    \/ MakeHydrogensImplicit
    \/ MakeHydrogensExplicit

SpecAdapter == Init /\ [][NextAdapter]_vars

\* import, export and import of what was exported
NextRoundTrip ==
    \/ Import
    \/ toOBMol
    \/ Reimport

SpecRoundTrip == Init /\ [][NextRoundTrip]_vars

\* an imported graph exported and switched between its two representations
NextToggle ==
    \/ Import
    \/ toOBMol
    \/ MakeHydrogensImplicit
    \/ MakeHydrogensExplicit

SpecToggle == Init /\ [][NextToggle]_vars

NextCopy ==
    \/ Import
    \/ Copy
    \/ toOBMol
    \/ MakeHydrogensImplicit
    \/ MakeHydrogensExplicit

SpecCopy == Init /\ [][NextCopy]_vars

Next ==
    \/ Import
    \/ Reimport
    \/ toOBMol
    \/ MakeHydrogensImplicit
    \/ MakeHydrogensExplicit
    \/ AddAtom
    \/ AddBond
    \/ RemoveAtom
    \/ RemoveBond
    \/ SortAtoms
    \/ Copy

Spec == Init /\ [][Next]_vars
\* a Molecule holding caller-supplied resonance forms, about to be compared
InitIso ==
    /\ resonanceForms = <<>>
    /\ obmol = <<>>
    /\ last = Call("__init__", NoErr, FALSE, {})
    /\ mid = <<>>
    /\ pre = <<>>
    /\ base = <<>>
    /\ rt = [stage |-> 0, ok |-> FALSE]
    /\ edits = 0
    /\ iso \in {[self |-> fs, other |-> o, called |-> FALSE, result |-> FALSE] :
                  fs \in FormLists, o \in Others}

\* Molecule.isIsomorphic(other)
IsIsomorphic ==
    /\ ~iso.called
    /\ iso' = [iso EXCEPT !.called = TRUE,
                          !.result = isIsomorphic(iso.self, iso.other)]
    /\ UNCHANGED <<resonanceForms, obmol, last, mid, pre, base, rt, edits>>

SpecIso == InitIso /\ [][IsIsomorphic]_vars
(****************************** claims ***********************************)
\* the bonds of a graph as (unordered atom pair, order)
BondMultiset(g) == {<<{t[1], t[2]}, t[3]>> : t \in g.bonds}

SameAtomsAndBonds(g1, g2) ==
    /\ Len(g1.atoms) = Len(g2.atoms)
    /\ \A i \in 1..Len(g1.atoms) :
         /\ i <= Len(g2.atoms)
         /\ g1.atoms[i].number = g2.atoms[i].number
         /\ g1.atoms[i].charge = g2.atoms[i].charge
    /\ BondMultiset(g1) = BondMultiset(g2)

\* C1: when a closed-shell foreign structure with single, double and
\* triple bonds only has been imported, exported, and the export imported
\* again, the second import completes and its graph has the atom count,
\* the per-atom (atomic number, charge) and the bonds (unordered pair of
\* canonical indices, order) of the first import's graph as the export
\* left it.
RoundTripPreserves ==
    (rt.stage = 3 /\ rt.ok) =>
        /\ last.err = NoErr
        /\ SameAtomsAndBonds(pre[1], resonanceForms[1])

\* C1 witness: a round trip of a charged closed-shell structure with a
\* bonded pair of heavy atoms and a compressed hydrogen has completed
RoundTripDone ==
    /\ rt.stage = 3 /\ rt.ok
    /\ resonanceForms[1].bonds # {}
    /\ \E i \in 1..Len(resonanceForms[1].atoms) :
         /\ resonanceForms[1].atoms[i].charge # 0
         /\ resonanceForms[1].atoms[i].implicitHydrogens > 0
HydrogenPositions(g) == {i \in 1..Len(g.atoms) : isHydrogen(g.atoms[i])}

\* the implicitHydrogens counters of the heavy atoms, in list order
HeavyCounters(g) ==
    LET heavy == SelectSeq(g.atoms, isNonHydrogen)
    IN  [i \in 1..Len(heavy) |-> heavy[i].implicitHydrogens]

\* makeHydrogensExplicit and then makeHydrogensImplicit have just run on
\* graph base[1]
ExplicitThenImplicit ==
    last.op = "makeHydrogensImplicit" /\ base # <<>>

Restored(g1, g2) ==
    /\ Len(g1.atoms) = Len(g2.atoms)
    /\ Cardinality(BondPairs(g1)) = Cardinality(BondPairs(g2))
    /\ HeavyCounters(g1) = HeavyCounters(g2)

\* C2 as stated: on every graph whose hydrogen vertices all have degree 1,
\* makeHydrogensExplicit followed by makeHydrogensImplicit restores the
\* atom count, the bond count and every heavy atom's counter.
ExplicitImplicitRestores ==
    (ExplicitThenImplicit
       /\ \A i \in HydrogenPositions(base[1]) : Degree(base[1], i) = 1) =>
        /\ last.err = NoErr
        /\ Restored(base[1], resonanceForms[1])

\* C2 amended: on every graph that has no hydrogen vertex,
\* makeHydrogensExplicit followed by makeHydrogensImplicit completes and
\* restores the atom count, the bond count and every heavy atom's counter.
CompressedExplicitImplicitRestores ==
    (ExplicitThenImplicit /\ HydrogenPositions(base[1]) = {}) =>
        /\ last.err = NoErr
        /\ Restored(base[1], resonanceForms[1])

\* C2 witness: the two calls have run on a graph without hydrogen vertices
\* that holds a bond and an atom with implicit hydrogens
CompressedToggled ==
    /\ ExplicitThenImplicit
    /\ HydrogenPositions(base[1]) = {}
    /\ base[1].bonds # {}
    /\ \E i \in 1..Len(base[1].atoms) : base[1].atoms[i].implicitHydrogens > 0

FlagMeansNoHydrogen ==
    \A k \in 1..Len(resonanceForms) :
        resonanceForms[k].implicitHydrogens => HydrogenPositions(resonanceForms[k]) = {}

\* C3 as stated: in every reachable state, a graph whose implicitHydrogens
\* flag is true has no hydrogen vertex.
FlagImpliesNoHydrogenVertex == FlagMeansNoHydrogen

\* C3 amended: every operation other than addAtom keeps "flag true implies
\* no hydrogen vertex"; addAtom does not look at the flag.
FlagKeptExceptByAddAtom ==
    [][(FlagMeansNoHydrogen /\ last'.op # "addAtom") => FlagMeansNoHydrogen']_vars

\* C3 witness: a compressed graph (flag true, counters in use) that import
\* has produced and a later removeBond has edited
CompressedAndEdited ==
    /\ last.op = "removeBond"
    /\ resonanceForms[1].implicitHydrogens
    /\ \E i \in 1..Len(resonanceForms[1].atoms) :
         resonanceForms[1].atoms[i].implicitHydrogens > 0

\* <<the graph the hydrogen compression of the last call started from>>
CompressionInput ==
    IF last.op = "makeHydrogensImplicit" THEN pre
    ELSE IF last.op = "fromOBMol" \/ (last.op = "toOBMol" /\ last.implicitH) THEN mid
    ELSE <<>>

\* C4: a compression (direct, or at the end of import or export) of a graph
\* with a heavy atom and a hydrogen vertex of degree other than 1 ends in
\* StructuralError.
BadHydrogenRaisesStructuralError ==
    (/\ CompressionInput # <<>>
     /\ ~AllHydrogen(CompressionInput[1])
     /\ \E i \in HydrogenPositions(CompressionInput[1]) :
            Degree(CompressionInput[1], i) # 1) =>
        last.err = "StructuralError"

\* C5: import decodes every spin code by the table, and a structure with
\* a code outside 0..3 ends the import in StructuralError.
SpinDecodedOrRejected ==
    last.op = "fromOBMol" =>
        /\ \A i \in 1..Len(obmol[1].atoms) :
             LET code == obmol[1].atoms[i].spin
                 want == CASE code = 0 -> <<0, 1>> [] code = 1 -> <<2, 1>>
                           [] code = 2 -> <<1, 2>> [] code = 3 -> <<2, 3>>
                           [] OTHER -> <<0, 0>>
             IN  code \in 0..3 =>
                   /\ mid[1].atoms[i].radicalElectrons = want[1]
                   /\ mid[1].atoms[i].spinMultiplicity = want[2]
        /\ (\E i \in 1..Len(obmol[1].atoms) : obmol[1].atoms[i].spin \notin 0..3)
             => last.err = "StructuralError"
\* the AddBond calls the last toOBMol made for the atom pair {a, b}
CallsFor(a, b) == {c \in last.calls : {c[1], c[2]} = {a, b}}

\* toOBMol has just emitted the graph mid[1]
Emitted == last.op = "toOBMol" /\ mid # <<>>

\* C6: toOBMol makes exactly one AddBond call for every bond stored in the
\* graph it emits, with that bond's order, and no other call.
OneAddBondCallPerBond ==
    Emitted =>
        /\ \A t \in mid[1].bonds :
             /\ Cardinality(CallsFor(t[1], t[2])) = 1
             /\ \A c \in CallsFor(t[1], t[2]) : c[3] = t[3]
        /\ \A c \in last.calls :
             \E t \in mid[1].bonds : t[1] = c[1] /\ t[2] = c[2]

\* C6 witness: an export of a graph with two bonds has made two calls
TwoBondsEmitted ==
    /\ Emitted
    /\ Cardinality(last.calls) = 2
    /\ Cardinality(BondPairs(mid[1])) = 2

\* C7: after import and any sequence of makeHydrogensImplicit,
\* makeHydrogensExplicit and export, every bond stored under (a,b) is
\* stored with the same order under (b,a), and both a and b are vertices.
BondsSymmetricNoDangling ==
    \A k \in 1..Len(resonanceForms) :
        \A t \in resonanceForms[k].bonds :
            /\ <<t[2], t[1], t[3]>> \in resonanceForms[k].bonds
            /\ {t[1], t[2]} \subseteq 1..Len(resonanceForms[k].atoms)
            /\ \A u \in resonanceForms[k].bonds :
                 (u[1] = t[1] /\ u[2] = t[2]) => u[3] = t[3]

\* C7 witness: an export has left a graph of three atoms, hydrogen vertices
\* among them, that holds two bonds
BondsAfterToggles ==
    /\ last.op = "toOBMol" /\ last.err = NoErr
    /\ Len(resonanceForms[1].atoms) = 3
    /\ HydrogenPositions(resonanceForms[1]) # {}
    /\ Cardinality(BondPairs(resonanceForms[1])) = 2

\* C8: Molecule.isIsomorphic(other) returns true exactly when other is a
\* Molecule or a ChemGraph and some resonance form of self is isomorphic
\* to some resonance form of other (to other itself for a ChemGraph); so
\* it returns false for any other type and for an empty list.
IsomorphicIffSomePairMatches ==
    iso.called =>
        (iso.result <=>
            /\ iso.other.type \in {"Molecule", "ChemGraph"}
            /\ \E i \in 1..Len(iso.self), j \in 1..Len(iso.other.forms) :
                 GraphIsIsomorphic(iso.self[i], iso.other.forms[j]))

\* C8 witness: true was returned although the first forms do not match:
\* the match is between the second form of self and the second of other
LaterFormsMatch ==
    /\ iso.called /\ iso.result
    /\ iso.other.type = "Molecule"
    /\ Len(iso.self) = 2 /\ Len(iso.other.forms) = 2
    /\ \A j \in 1..2 : ~GraphIsIsomorphic(iso.self[1], iso.other.forms[j])
    /\ ~GraphIsIsomorphic(iso.self[2], iso.other.forms[1])
    /\ iso.self[2] # iso.other.forms[2]

\* C9: makeHydrogensImplicit on a graph whose vertices are all hydrogen
\* atoms completes and leaves the graph as it was: atoms, bonds, every
\* counter and the flag.
ImplicitOnAllHydrogenIsNoOp ==
    (last.op = "makeHydrogensImplicit" /\ AllHydrogen(pre[1])) =>
        /\ last.err = NoErr
        /\ resonanceForms = pre

\* C9 witness: the call has run on two bonded hydrogen atoms
ImplicitOnDihydrogen ==
    /\ last.op = "makeHydrogensImplicit"
    /\ AllHydrogen(pre[1])
    /\ Len(pre[1].atoms) = 2
    /\ pre[1].bonds # {}

\* C10: when toOBMol returns, the implicitHydrogens flag of
\* resonanceForms[0] is what it was when toOBMol was called.
ExportRestoresFlag ==
    (last.op = "toOBMol" /\ last.err = NoErr) =>
        resonanceForms[1].implicitHydrogens = last.implicitH

\* the hydrogen total of a graph: its hydrogen vertices plus the
\* implicitHydrogens counters of the atoms that are its vertices
HydrogenTotal(g) ==
    Cardinality(HydrogenPositions(g))
        + SumSeq([i \in 1..Len(g.atoms) |-> g.atoms[i].implicitHydrogens])

\* C11: a makeHydrogensImplicit or makeHydrogensExplicit call that completes
\* (called directly, or the compression at the end of import or export)
\* leaves the hydrogen total of the graph unchanged.
HydrogenTotalConserved ==
    /\ (last.op = "makeHydrogensExplicit" /\ last.err = NoErr) =>
           HydrogenTotal(resonanceForms[1]) = HydrogenTotal(pre[1])
    /\ (CompressionInput # <<>> /\ last.err = NoErr) =>
           HydrogenTotal(resonanceForms[1]) = HydrogenTotal(CompressionInput[1])

\* C12: a hydrogen compression that ends in an error (called directly, or
\* at the end of import or export) leaves the graph exactly as it was when
\* the compression started: atoms with their counters, bonds and flag; in
\* particular resonanceForms holds no partially compressed graph.
FailedCompressionLeavesGraph ==
    (CompressionInput # <<>> /\ last.err # NoErr) =>
        \/ resonanceForms = <<>>
        \/ resonanceForms[1] = CompressionInput[1]

\* a copy of graph pre[1] has just been made, or made and then exported
CopyMade == last.op = "copy"
CopyExported == last.op = "toOBMol" /\ last.err = NoErr /\ pre # <<>>

\* C13: the copy carries the implicitHydrogens flag of the graph copied,
\* and after toOBMol on the copy of a compressed graph the copy is again
\* compressed (flag true, no hydrogen vertex).
CopyKeepsFlag ==
    /\ CopyMade =>
           resonanceForms[1].implicitHydrogens = pre[1].implicitHydrogens
    /\ (CopyExported /\ pre[1].implicitHydrogens) =>
           /\ resonanceForms[1].implicitHydrogens
           /\ HydrogenPositions(resonanceForms[1]) = {}
====
